---------------------------- MODULE Spec2Model ----------------------------
(***************************************************************************)
(* Simulation core of the lane-driving mini game (src/backup.ts): the      *)
(* GameManager state machine, the frame loop, Player, NPC, Coin, Powerup,  *)
(* Hazard, Particle, the spawner and the collision resolver.               *)
(*                                                                         *)
(* Number representation.  The source computes in IEEE doubles; the model  *)
(* uses integers in fixed point:                                           *)
(*   - time, timers, Date.now()           milliseconds                     *)
(*   - positions x, y and offsets         1/100 pixel (Px(n) = n pixels)   *)
(*   - widths and heights                 pixels (halved inside getBounds) *)
(*   - velocityY                          1/100 pixel per second           *)
(*   - player.power                       1/1000 power unit                *)
(*   - player.laneChangeProgress          1/LANE_CHANGE_DURATION, so that  *)
(*                                        LANE_CHANGE_DURATION stands for 1*)
(*   - currentSpeedMultiplier             tenths (10 = 1.0, 11 = 1.1)      *)
(* Math.random() is a nondeterministic draw from a small set, and so are   *)
(* the cosmetic sines (wobble and bob), whose phase is not tracked.        *)
(***************************************************************************)
EXTENDS Integers, Sequences, FiniteSets, TLC

-----------------------------------------------------------------------------
(* GAME_CONFIG *)

CANVAS_WIDTH == 400
GAME_DURATION == 60000
LANE_CHANGE_DURATION == 150
NPC_SPEED == 200
NPC_SPAWN_INTERVAL == 2000
MAX_NPCS == 8
COIN_SIZE == 25
COIN_SPAWN_INTERVAL == 600
MAX_COINS == 20
COIN_BURST_PARTICLES == 20
MAX_POWER == 120
POWER_DECAY_RATE == 1
MAX_POWERUPS == 6
SHIELD_DURATION == 8000
MAX_HAZARDS == 8
MAX_PARTICLES == 150
PLAYER_WIDTH == 80
PLAYER_HEIGHT == 120

\* LANES: [100, 200, 300]
LANES == <<100, 200, 300>>

\* SPEED_INCREASE_20S: 1.1 and SPEED_INCREASE_40S: 1.2, in tenths
SPEED_INCREASE_20S == 11
SPEED_INCREASE_40S == 12

\* GAME_STATE
GAME_STATE == {"splash", "loading", "playing", "paused", "game_over", "lead_form"}

\* n pixels in the model's position unit
Px(n) == 100 * n

Max(a, b) == IF a >= b THEN a ELSE b
Min(a, b) == IF a <= b THEN a ELSE b
Abs(a) == IF a >= 0 THEN a ELSE -a

\* a * num / den for a signed a, truncated toward zero (a scaled product of doubles)
MulDiv(a, num, den) == IF a >= 0 THEN (a * num) \div den ELSE -(((-a) * num) \div den)


-----------------------------------------------------------------------------
(* GameObject *)

\* GameObject.getBounds: the box centred at (x, y); width/2 pixels = 50*width units
getBounds(o) ==
    [left   |-> o.x - 50 * o.width,
     right  |-> o.x + 50 * o.width,
     top    |-> o.y - 50 * o.height,
     bottom |-> o.y + 50 * o.height]

\* GameObject.collidesWith, mutated: touching boxes count as overlapping
collidesWithTouching(a, b) ==
    LET bounds1 == getBounds(a)
        bounds2 == getBounds(b)
    IN  /\ bounds1.left <= bounds2.right
        /\ bounds1.right >= bounds2.left
        /\ bounds1.top <= bounds2.bottom
        /\ bounds1.bottom >= bounds2.top

\* GameObject.collidesWith
collidesWith(a, b) ==
    LET bounds1 == getBounds(a)
        bounds2 == getBounds(b)
    IN  /\ bounds1.left < bounds2.right
        /\ bounds1.right > bounds2.left
        /\ bounds1.top < bounds2.bottom
        /\ bounds1.bottom > bounds2.top

\* GameObject.update: y += velocityY * (dt / 1000); velocityX is 0 for every object
MoveY(o, dt) == o.y + (o.velocityY * dt) \div 1000

-----------------------------------------------------------------------------
(* Player *)

\* new Player(), mutated: the player starts settled (laneChangeProgress = 1)
NewPlayerSettled(height) ==
    [x |-> Px(CANVAS_WIDTH) \div 2,
     y |-> Px(height - 100),
     width |-> PLAYER_WIDTH,
     height |-> PLAYER_HEIGHT,
     targetLane |-> 1,
     currentLane |-> 1,
     laneChangeProgress |-> LANE_CHANGE_DURATION,
     power |-> 100000,
     shieldActive |-> FALSE,
     shieldEndTime |-> 0,
     score |-> 0]

\* new Player(): x = CANVAS_WIDTH / 2, y = CANVAS_HEIGHT - 100
NewPlayer(height) ==
    [x |-> Px(CANVAS_WIDTH) \div 2,
     y |-> Px(height - 100),
     width |-> PLAYER_WIDTH,
     height |-> PLAYER_HEIGHT,
     targetLane |-> 1,
     currentLane |-> 1,
     laneChangeProgress |-> 0,
     power |-> 100000,
     shieldActive |-> FALSE,
     shieldEndTime |-> 0,
     score |-> 0]

\* Player.update, power decay, mutated: a fixed amount is taken each frame
PowerDecayPerFrame(power, dt) == Max(0, power - 100)

\* Player.update, power decay, mutated: the sign of the decay term is reversed
PowerDecayRecharges(power, dt) == Max(0, power + POWER_DECAY_RATE * dt)

\* Player.update, power decay: Math.max(0, power - POWER_DECAY_RATE * dt / 1000)
PowerDecay(power, dt) == Max(0, power - POWER_DECAY_RATE * dt)

\* Player.update(dt), mutated: currentLane is not moved when the transition ends
PlayerUpdateKeepsLane(p, dt, clock, height) ==
    LET moving   == p.laneChangeProgress < LANE_CHANGE_DURATION
        advanced == p.laneChangeProgress + dt
        settles  == moving /\ advanced >= LANE_CHANGE_DURATION
        progress == IF ~moving THEN p.laneChangeProgress
                    ELSE IF settles THEN LANE_CHANGE_DURATION ELSE advanced
        startX   == Px(LANES[p.currentLane + 1])
        endX     == Px(LANES[p.targetLane + 1])
    IN  [p EXCEPT
           !.laneChangeProgress = progress,
           !.x = startX + ((endX - startX) * progress) \div LANE_CHANGE_DURATION,
           !.y = Px(height - 100),
           !.power = PowerDecay(p.power, dt),
           !.shieldActive = p.shieldActive /\ ~(clock > p.shieldEndTime)]

\* Player.update(dt), reading Date.now() = clock and CANVAS_HEIGHT = height
PlayerUpdate(p, dt, clock, height) ==
    LET moving   == p.laneChangeProgress < LANE_CHANGE_DURATION
        advanced == p.laneChangeProgress + dt
        settles  == moving /\ advanced >= LANE_CHANGE_DURATION
        progress == IF ~moving THEN p.laneChangeProgress
                    ELSE IF settles THEN LANE_CHANGE_DURATION ELSE advanced
        current  == IF settles THEN p.targetLane ELSE p.currentLane
        startX   == Px(LANES[current + 1])
        endX     == Px(LANES[p.targetLane + 1])
    IN  [p EXCEPT
           !.laneChangeProgress = progress,
           !.currentLane = current,
           !.x = startX + ((endX - startX) * progress) \div LANE_CHANGE_DURATION,
           !.y = Px(height - 100),
           !.power = PowerDecay(p.power, dt),
           !.shieldActive = p.shieldActive /\ ~(clock > p.shieldEndTime)]

\* Player.changeLane, mutated: the request is accepted in mid-transition
changeLaneAnytime(p, direction) ==
    LET newLane == Max(0, Min(2, p.targetLane + direction))
    IN  IF newLane # p.targetLane
        THEN [p EXCEPT !.targetLane = newLane, !.laneChangeProgress = 0]
        ELSE p

\* Player.changeLane, mutated: a request for the lane already targeted restarts
\* the transition
changeLaneAlwaysRestarts(p, direction) ==
    IF p.laneChangeProgress < LANE_CHANGE_DURATION THEN p
    ELSE [p EXCEPT !.targetLane = Max(0, Min(2, p.targetLane + direction)),
                   !.laneChangeProgress = 0]

\* Player.changeLane(direction)
changeLane(p, direction) ==
    IF p.laneChangeProgress < LANE_CHANGE_DURATION THEN p
    ELSE LET newLane == Max(0, Min(2, p.targetLane + direction))
         IN  IF newLane # p.targetLane
             THEN [p EXCEPT !.targetLane = newLane, !.laneChangeProgress = 0]
             ELSE p

\* Player.activateShield(), mutated: a shield that is up keeps its expiry
activateShieldKeepsExpiry(p, clock) ==
    IF p.shieldActive THEN p
    ELSE [p EXCEPT !.shieldActive = TRUE, !.shieldEndTime = clock + SHIELD_DURATION]

\* Player.activateShield(), reading Date.now() = clock
activateShield(p, clock) ==
    [p EXCEPT !.shieldActive = TRUE, !.shieldEndTime = clock + SHIELD_DURATION]

\* Player.takeDamage, mutated: the shield is not consulted
takeDamageAlways(p, amount) ==
    [p EXCEPT !.power = Max(0, p.power - amount)]

\* Player.takeDamage(amount), amount in 1/1000 power unit
takeDamage(p, amount) ==
    IF ~p.shieldActive THEN [p EXCEPT !.power = Max(0, p.power - amount)] ELSE p

-----------------------------------------------------------------------------
(* NPC *)

\* NPC constructor: the carTypes table (type -> width, height)
carTypes ==
    [saloon    |-> [width |-> 85,  height |-> 125],
     suv       |-> [width |-> 95,  height |-> 140],
     hatchback |-> [width |-> 75,  height |-> 110],
     sports    |-> [width |-> 80,  height |-> 120],
     truck     |-> [width |-> 100, height |-> 150],
     compact   |-> [width |-> 70,  height |-> 100]]

\* new NPC(lane) followed by npc.velocityY *= currentSpeedMultiplier.  The draw d
\* holds the constructor's Math.random() results: car (carTypes index), speed
\* (NPC_SPEED + (random - 0.5) * 50), dir (avoidanceDirection), interval
\* (laneChangeInterval) and duration (16.67 / laneChangeSpeed, the milliseconds a
\* lane change takes).  The forward-movement fields only drive their own timer
\* and are left out.
NewNPC(id, lane, d, multiplier) ==
    [id |-> id,
     x |-> Px(LANES[lane + 1]),
     y |-> Px(-100),
     width |-> carTypes[d.car].width,
     height |-> carTypes[d.car].height,
     velocityY |-> d.speed * multiplier * 10,
     active |-> TRUE,
     lane |-> lane,
     originalX |-> Px(LANES[lane + 1]),
     carType |-> d.car,
     laneChangeTimer |-> 0,
     laneChangeInterval |-> d.interval,
     targetLane |-> lane,
     laneChangeProgress |-> 0,
     laneChangeDuration |-> d.duration,
     avoidanceDirection |-> d.dir,
     avoidanceOffset |-> 0,
     contactDamage |-> 0]

\* NPC.updateLaneChanging(dt).  u holds the Math.random() results used when a lane
\* change starts: u.pick (1 or 2, the index into availableLanes) and u.interval.
\* laneChangeProgress counts in 1/laneChangeDuration.
updateLaneChanging(n, dt, u) ==
    LET timer  == n.laneChangeTimer + dt
        starts == timer > n.laneChangeInterval
        availableLanes == SelectSeq(<<0, 1, 2>>, LAMBDA l : l # n.lane)
        n1 == IF starts
              THEN [n EXCEPT !.targetLane = availableLanes[u.pick],
                             !.laneChangeProgress = 0,
                             !.laneChangeTimer = 0,
                             !.laneChangeInterval = u.interval]
              ELSE [n EXCEPT !.laneChangeTimer = timer]
        moving   == n1.laneChangeProgress < n1.laneChangeDuration
        advanced == n1.laneChangeProgress + dt
    IN  IF ~moving THEN n1
        ELSE IF advanced >= n1.laneChangeDuration
        THEN [n1 EXCEPT !.laneChangeProgress = n1.laneChangeDuration,
                        !.lane = n1.targetLane,
                        !.originalX = Px(LANES[n1.targetLane + 1])]
        ELSE [n1 EXCEPT !.laneChangeProgress = advanced]

\* NPC.getLaneChangeOffset()
getLaneChangeOffset(n) ==
    IF n.laneChangeProgress < n.laneChangeDuration
    THEN MulDiv(Px(LANES[n.targetLane + 1]) - Px(LANES[n.lane + 1]),
                n.laneChangeProgress, n.laneChangeDuration)
    ELSE 0

\* NPC.update(dt, player): the avoidance block.  avoidanceDistance = 150,
\* maxAvoidanceSpeed = 100 px/s, so the step is (150 - distance) / 150 * 100 * dt / 1000
Avoidance(n, dt, player) ==
    LET distanceToPlayer   == Abs(n.y - player.y)
        horizontalDistance == Abs(n.x - player.x)
    IN  IF distanceToPlayer < Px(150) /\ horizontalDistance < Px(80)
        THEN LET dir  == IF player.x < n.x THEN 1 ELSE -1
                 step == ((Px(150) - distanceToPlayer) * dt) \div 1500
             IN  [n EXCEPT !.avoidanceDirection = dir,
                           !.avoidanceOffset =
                               Max(Px(-60), Min(Px(60), n.avoidanceOffset + dir * step))]
        ELSE [n EXCEPT !.avoidanceOffset = MulDiv(n.avoidanceOffset, 9, 10)]

\* NPC.update(dt, player); u.wobble is Math.sin(wobbleOffset) * 3 in position units
NPCUpdate(n, dt, player, height, u) ==
    LET n1 == [n EXCEPT !.y = MoveY(n, dt)]
        n2 == updateLaneChanging(n1, dt, u)
        n3 == Avoidance(n2, dt, player)
    IN  [n3 EXCEPT
           !.x = n3.originalX + u.wobble + n3.avoidanceOffset + getLaneChangeOffset(n3),
           !.active = n3.active /\ ~(n3.y > Px(height + 100))]

-----------------------------------------------------------------------------
(* Coin, Powerup, Hazard, Particle *)

\* new Coin(lane), mutated: coin.velocityY is not multiplied
NewCoinUnscaled(id, lane, speed, multiplier) ==
    [id |-> id,
     x |-> Px(LANES[lane + 1]),
     y |-> Px(-50),
     width |-> COIN_SIZE,
     height |-> COIN_SIZE,
     velocityY |-> speed * 100,
     active |-> TRUE,
     lane |-> lane,
     collected |-> FALSE,
     collectTime |-> 0,
     originalX |-> Px(LANES[lane + 1])]

\* new Coin(lane) followed by coin.velocityY *= currentSpeedMultiplier;
\* speed is NPC_SPEED + (random - 0.5) * 30
NewCoin(id, lane, speed, multiplier) ==
    [id |-> id,
     x |-> Px(LANES[lane + 1]),
     y |-> Px(-50),
     width |-> COIN_SIZE,
     height |-> COIN_SIZE,
     velocityY |-> speed * multiplier * 10,
     active |-> TRUE,
     lane |-> lane,
     collected |-> FALSE,
     collectTime |-> 0,
     originalX |-> Px(LANES[lane + 1])]

\* Coin.update(dt), reading Date.now() = clock; bob is Math.sin(bobOffset) * 2
CoinUpdate(c, dt, clock, height, bob) ==
    LET y1 == MoveY(c, dt)
    IN  [c EXCEPT
           !.y = y1,
           !.x = c.originalX + bob,
           !.active = c.active /\ ~(y1 > Px(height + 100)),
           !.collected = c.collected /\ ~(clock > c.collectTime)]

\* Coin.collect, mutated: the coin stays active after it was collected
collectKeepsActive(c) ==
    IF ~c.collected
    THEN [ok |-> TRUE, coin |-> [c EXCEPT !.collected = TRUE]]
    ELSE [ok |-> FALSE, coin |-> c]

\* Coin.collect(): the returned flag and the coin afterwards
collect(c) ==
    IF ~c.collected
    THEN [ok |-> TRUE, coin |-> [c EXCEPT !.collected = TRUE, !.active = FALSE]]
    ELSE [ok |-> FALSE, coin |-> c]

\* new Powerup(lane) followed by powerup.velocityY *= currentSpeedMultiplier
NewPowerup(id, lane, multiplier) ==
    [id |-> id,
     x |-> Px(LANES[lane + 1]),
     y |-> Px(-50),
     width |-> 30,
     height |-> 30,
     velocityY |-> NPC_SPEED * multiplier * 10,
     active |-> TRUE,
     lane |-> lane,
     type |-> "shield",
     collected |-> FALSE]

\* Powerup.update(dt)
PowerupUpdate(o, dt, height) ==
    LET y1 == MoveY(o, dt)
    IN  [o EXCEPT !.y = y1, !.active = o.active /\ ~(y1 > Px(height + 100))]

\* new Hazard(lane, type) followed by hazard.velocityY *= currentSpeedMultiplier
NewHazard(id, lane, type, multiplier) ==
    [id |-> id,
     x |-> Px(LANES[lane + 1]),
     y |-> Px(-50),
     width |-> 30,
     height |-> 24,
     velocityY |-> NPC_SPEED * multiplier * 10,
     active |-> TRUE,
     lane |-> lane,
     type |-> type,
     blinkState |-> 0]

\* Hazard.update(dt)
HazardUpdate(o, dt, height) ==
    LET y1 == MoveY(o, dt)
    IN  [o EXCEPT
           !.y = y1,
           !.active = o.active /\ ~(y1 > Px(height + 100)),
           !.blinkState = IF o.type = "hazard_light"
                          THEN (o.blinkState + 1) % 60 ELSE o.blinkState]

\* Particle.update(dt) on a burst: the particles of one burst share their life, so
\* a burst is kept as [life, count]; position, colour and size are not modelled
ParticleUpdate(b, dt) == [b EXCEPT !.life = b.life - dt]

\* The number of Particle objects held in a list of bursts
RECURSIVE ParticleCount(_)
ParticleCount(bs) ==
    IF bs = <<>> THEN 0 ELSE Head(bs).count + ParticleCount(Tail(bs))

-----------------------------------------------------------------------------
(* Bounds of the model *)

\* update() calls that run the simulation in one session, per specification
MaxTicks == 5
MaxTicksLong == 10
MaxTicksInput == 6
MaxTicksCap == 8
MaxTicksSpacing == 5
MaxTicksDensity == 8
MaxTicksDecay == 6
MaxTicksSession == 3
MaxTicksProgress == 5
MaxTicksOrder == 4
MaxTicksShield == 7
MaxTicksResolve == 5
MaxTicksTerminal == 10
MaxTicksParticles == 14
MaxTicksLive == 12
MaxSessionsLive == 2
MaxSessions == 3
MaxIdle == 2
\* Date.now() when the page is constructed
Epoch == 100000

-----------------------------------------------------------------------------
(* GameManager state *)

VARIABLES
    gameState,                \* this.gameState
    isGameLoopRunning,        \* this.isGameLoopRunning
    frames,                   \* requestAnimationFrame(gameLoop) callbacks not yet run
    timeouts,                 \* setTimeout callbacks of startGame not yet run
    now,                      \* the wall clock, Date.now()
    canvasHeight,             \* GAME_CONFIG.CANVAS_HEIGHT (window.innerHeight)
    keys,                     \* this.keys: the key codes held down
    player,                   \* this.player
    npcs, coins, powerups, hazards, particles,
    gameTime,                 \* this.gameTime
    lastSpawnTime, lastCoinSpawnTime, lastPowerupSpawnTime, lastHazardSpawnTime,
    burstStreak, lastBurstTime,
    currentSpeedMultiplier, speedIncreaseApplied20s, speedIncreaseApplied40s,
    \* history variables: they record what the code did and are never read by it
    ticks,                    \* simulation updates run in this session
    idleUpdates,              \* update() calls that found gameState not playing
    sessions,                 \* startGame() calls so far
    nextId,                   \* entities constructed in this session
    events,                   \* what the last checkCollisions() pass did, in order
    speedLog,                 \* the assignments to currentSpeedMultiplier in this session
    scoredCoins,              \* ids of the coins whose collect() returned true
    resolverInput,            \* what the last checkCollisions() pass started from
    collisionTest             \* a pair of boxes and what collidesWith made of them

loopVars  == <<gameState, isGameLoopRunning, frames, timeouts>>
worldVars == <<player, npcs, coins, powerups, hazards, particles, gameTime,
               lastSpawnTime, lastCoinSpawnTime, lastPowerupSpawnTime,
               lastHazardSpawnTime, burstStreak, lastBurstTime,
               currentSpeedMultiplier, speedIncreaseApplied20s,
               speedIncreaseApplied40s>>
histVars  == <<ticks, idleUpdates, nextId, events, speedLog, scoredCoins,
               resolverInput>>
vars == <<loopVars, now, canvasHeight, keys, worldVars, histVars, sessions,
          collisionTest>>

\* resolverInput before the first pass of a session: a fresh player, nothing on
\* the road
NoPass(height) ==
    [player |-> NewPlayer(height), coins |-> <<>>, powerups |-> <<>>,
     npcs |-> <<>>, hazards |-> <<>>, clock |-> 0]

\* The state after new GameManager(): the constructor's field initialisers
InitWith(heights) ==
    /\ gameState = "splash"
    /\ isGameLoopRunning = FALSE
    /\ frames = 0
    /\ timeouts = 0
    /\ now = Epoch
    /\ canvasHeight \in heights
    /\ keys = {}
    /\ player = NewPlayer(canvasHeight)
    /\ npcs = <<>> /\ coins = <<>> /\ powerups = <<>> /\ hazards = <<>>
    /\ particles = <<>>
    /\ gameTime = GAME_DURATION
    /\ lastSpawnTime = 0 /\ lastCoinSpawnTime = 0
    /\ lastPowerupSpawnTime = 0 /\ lastHazardSpawnTime = 0
    /\ burstStreak = 0 /\ lastBurstTime = 0
    /\ currentSpeedMultiplier = 10
    /\ speedIncreaseApplied20s = FALSE
    /\ speedIncreaseApplied40s = FALSE
    /\ ticks = 0 /\ idleUpdates = 0 /\ sessions = 0 /\ nextId = 0
    /\ events = <<>> /\ speedLog = <<>> /\ scoredCoins = {}
    /\ resolverInput = NoPass(canvasHeight)

\* No box pair is under test while the game runs
NoCollisionTest == collisionTest = <<>>

-----------------------------------------------------------------------------
(* Session control *)

\* startGameOnClick / restartGame -> GameManager.startGame().  startGame checks
\* nothing; E.startStates are the states in which the environment makes the call
\* (the start and restart buttons are on the splash and game-over screens, which
\* stay up until the loading timeout hides them).
StartGame(E) ==
    /\ gameState \in E.startStates
    /\ sessions < E.maxSessions
    /\ sessions' = sessions + 1
    /\ gameState' = "loading"
    /\ timeouts' = timeouts + 1
    /\ UNCHANGED <<isGameLoopRunning, frames, now, canvasHeight, keys, worldVars,
                   histVars, collisionTest>>

\* GameManager.startGameLoop(), mutated: no check of isGameLoopRunning
startGameLoopAlways ==
    /\ isGameLoopRunning' = TRUE
    /\ frames' = frames + 1

\* GameManager.startGameLoop(): a second call while running starts nothing
startGameLoop ==
    IF isGameLoopRunning
    THEN UNCHANGED <<isGameLoopRunning, frames>>
    ELSE /\ isGameLoopRunning' = TRUE
         /\ frames' = frames + 1

\* GameManager.resetGame(), mutated: this.npcs is not emptied
resetGameKeepsNpcs ==
    /\ player' = NewPlayer(canvasHeight)
    /\ npcs' = npcs /\ coins' = <<>> /\ powerups' = <<>> /\ hazards' = <<>>
    /\ particles' = <<>>
    /\ gameTime' = GAME_DURATION
    /\ lastSpawnTime' = 0 /\ lastCoinSpawnTime' = 0
    /\ lastPowerupSpawnTime' = 0 /\ lastHazardSpawnTime' = 0
    /\ burstStreak' = 0 /\ lastBurstTime' = 0
    /\ currentSpeedMultiplier' = 10
    /\ speedIncreaseApplied20s' = FALSE
    /\ speedIncreaseApplied40s' = FALSE
    /\ ticks' = 0 /\ idleUpdates' = 0 /\ nextId' = 0
    /\ events' = <<>> /\ speedLog' = <<>> /\ scoredCoins' = {}
    /\ resolverInput' = NoPass(canvasHeight)

\* GameManager.resetGame()
resetGame ==
    /\ player' = NewPlayer(canvasHeight)
    /\ npcs' = <<>> /\ coins' = <<>> /\ powerups' = <<>> /\ hazards' = <<>>
    /\ particles' = <<>>
    /\ gameTime' = GAME_DURATION
    /\ lastSpawnTime' = 0 /\ lastCoinSpawnTime' = 0
    /\ lastPowerupSpawnTime' = 0 /\ lastHazardSpawnTime' = 0
    /\ burstStreak' = 0 /\ lastBurstTime' = 0
    /\ currentSpeedMultiplier' = 10
    /\ speedIncreaseApplied20s' = FALSE
    /\ speedIncreaseApplied40s' = FALSE
    /\ ticks' = 0 /\ idleUpdates' = 0 /\ nextId' = 0
    /\ events' = <<>> /\ speedLog' = <<>> /\ scoredCoins' = {}
    /\ resolverInput' = NoPass(canvasHeight)

\* The setTimeout callback of startGame, 500 ms after the call
LoadingTimeout ==
    /\ timeouts > 0
    /\ timeouts' = timeouts - 1
    /\ now' = now + 500
    /\ gameState' = "playing"
    /\ resetGame
    /\ startGameLoop
    /\ UNCHANGED <<canvasHeight, keys, sessions, collisionTest>>

\* keydown / keyup listeners: this.keys[e.code] = true / false.  KeyA and KeyD
\* are read together with the arrows and are not told apart.
KeyDown ==
    \E k \in {"ArrowLeft", "ArrowRight"} :
        /\ k \notin keys
        /\ keys' = keys \cup {k}
        /\ UNCHANGED <<loopVars, now, canvasHeight, worldVars, histVars, sessions,
                       collisionTest>>

KeyUp ==
    \E k \in keys :
        /\ keys' = keys \ {k}
        /\ UNCHANGED <<loopVars, now, canvasHeight, worldVars, histVars, sessions,
                       collisionTest>>

\* touchmove / touchend / mousemove listeners: the pointer position is turned into
\* the closest lane, and changeLane(lane - targetLane) is called when it differs
PointerLane(lane) ==
    /\ gameState = "playing"
    /\ lane # player.targetLane
    /\ player' = changeLane(player, lane - player.targetLane)
    /\ UNCHANGED <<loopVars, now, canvasHeight, keys, npcs, coins, powerups, hazards,
                   particles, gameTime, lastSpawnTime, lastCoinSpawnTime,
                   lastPowerupSpawnTime, lastHazardSpawnTime, burstStreak,
                   lastBurstTime, currentSpeedMultiplier, speedIncreaseApplied20s,
                   speedIncreaseApplied40s, histVars, sessions, collisionTest>>

Pointer == \E lane \in 0..2 : PointerLane(lane)

-----------------------------------------------------------------------------
(* GameManager.update: progression, input, spawner *)

\* GameManager.updateSpeedProgression(), mutated: the 40 s block runs before the
\* 20 s block
updateSpeedProgressionSwapped(time, st) ==
    LET timeElapsed == GAME_DURATION - time
        s1 == IF timeElapsed >= 40000 /\ ~st.applied40s
              THEN [st EXCEPT !.multiplier = SPEED_INCREASE_40S,
                              !.applied40s = TRUE,
                              !.log = Append(st.log, [elapsed |-> timeElapsed,
                                                      multiplier |-> SPEED_INCREASE_40S])]
              ELSE st
    IN  IF timeElapsed >= 20000 /\ ~s1.applied20s
        THEN [s1 EXCEPT !.multiplier = SPEED_INCREASE_20S,
                        !.applied20s = TRUE,
                        !.log = Append(s1.log, [elapsed |-> timeElapsed,
                                                multiplier |-> SPEED_INCREASE_20S])]
        ELSE s1

\* GameManager.updateSpeedProgression(), mutated: the 20 s latch is never set
updateSpeedProgressionNoLatch(time, st) ==
    LET timeElapsed == GAME_DURATION - time
        s1 == IF timeElapsed >= 20000
              THEN [st EXCEPT !.multiplier = SPEED_INCREASE_20S,
                              !.log = Append(st.log, [elapsed |-> timeElapsed,
                                                      multiplier |-> SPEED_INCREASE_20S])]
              ELSE st
    IN  IF timeElapsed >= 40000 /\ ~s1.applied40s
        THEN [s1 EXCEPT !.multiplier = SPEED_INCREASE_40S,
                        !.applied40s = TRUE,
                        !.log = Append(s1.log, [elapsed |-> timeElapsed,
                                                multiplier |-> SPEED_INCREASE_40S])]
        ELSE s1

\* GameManager.updateSpeedProgression() with this.gameTime = time; st holds
\* currentSpeedMultiplier, the two latches and the log of the assignments made.
\* timeElapsed is kept in milliseconds (20 s = 20000).
updateSpeedProgression(time, st) ==
    LET timeElapsed == GAME_DURATION - time
        s1 == IF timeElapsed >= 20000 /\ ~st.applied20s
              THEN [st EXCEPT !.multiplier = SPEED_INCREASE_20S,
                              !.applied20s = TRUE,
                              !.log = Append(st.log, [elapsed |-> timeElapsed,
                                                      multiplier |-> SPEED_INCREASE_20S])]
              ELSE st
    IN  IF timeElapsed >= 40000 /\ ~s1.applied40s
        THEN [s1 EXCEPT !.multiplier = SPEED_INCREASE_40S,
                        !.applied40s = TRUE,
                        !.log = Append(s1.log, [elapsed |-> timeElapsed,
                                                multiplier |-> SPEED_INCREASE_40S])]
        ELSE s1

\* GameManager.handleInput()
handleInput(p, held) ==
    LET p1 == IF "ArrowLeft" \in held THEN changeLane(p, -1) ELSE p
    IN  IF "ArrowRight" \in held THEN changeLane(p1, 1) ELSE p1

\* spawnObjects, NPC block: the outer condition, mutated to ignore MAX_NPCS
NpcSpawnDueNoCap(clock) ==
    clock - lastSpawnTime > NPC_SPAWN_INTERVAL

\* spawnObjects, NPC block: the outer condition
NpcSpawnDue(clock) ==
    /\ clock - lastSpawnTime > NPC_SPAWN_INTERVAL
    /\ Len(npcs) < MAX_NPCS

\* spawnObjects, NPC block, mutated: the distance to the existing NPCs is not
\* checked
NpcHasRoomNoSpacing(lane) ==
    Cardinality({i \in 1..Len(npcs) :
                   Abs(npcs[i].x - Px(LANES[lane + 1])) < Px(50)}) < 2

\* spawnObjects, NPC block: hasSpace && npcsInLane < 2 for proposedLane = lane
\* (minDistance = 200, proposedY = -100; the loop breaks at the first NPC that is
\* too close, and npcsInLane is read only when it ran to the end)
NpcHasRoom(lane) ==
    LET hasSpace == \A i \in 1..Len(npcs) : ~(Abs(npcs[i].y - Px(-100)) < Px(200))
        npcsInLane == Cardinality({i \in 1..Len(npcs) :
                                     Abs(npcs[i].x - Px(LANES[lane + 1])) < Px(50)})
    IN  hasSpace /\ npcsInLane < 2

\* spawnObjects, coin block: the cooldown and population part of the condition
CoinSpawnDue(clock) ==
    /\ clock - lastCoinSpawnTime > COIN_SPAWN_INTERVAL
    /\ Len(coins) < MAX_COINS

\* spawnObjects, powerup block: the condition, mutated to ignore MAX_POWERUPS
PowerupSpawnDueNoCap(clock) ==
    clock - lastPowerupSpawnTime > 1000

\* spawnObjects, powerup block: the cooldown and population part of the condition
PowerupSpawnDue(clock) ==
    /\ clock - lastPowerupSpawnTime > 1000
    /\ Len(powerups) < MAX_POWERUPS

\* spawnObjects, hazard block: the cooldown and population part of the condition
HazardSpawnDue(clock) ==
    /\ clock - lastHazardSpawnTime > 1500
    /\ Len(hazards) < MAX_HAZARDS

\* The Math.random() results spawnObjects can use in this state.  "none" stands
\* for a block that creates nothing: its condition is false, the lane has no room
\* (NPC) or the chance draw failed (coin, powerup, hazard).
NpcDraws(E, clock) ==
    IF ~NpcSpawnDue(clock) THEN {[spawn |-> FALSE]}
    ELSE (IF \E l \in E.npcLanes : ~NpcHasRoom(l) THEN {[spawn |-> FALSE]} ELSE {})
         \cup {[spawn |-> TRUE, lane |-> l, car |-> c, speed |-> v, dir |-> a,
                interval |-> i, duration |-> u] :
                 l \in {k \in E.npcLanes : NpcHasRoom(k)}, c \in E.cars,
                 v \in E.npcSpeeds, a \in E.dirs, i \in E.intervals,
                 u \in E.durations}

CoinDraws(E, clock) ==
    IF ~CoinSpawnDue(clock) THEN {[spawn |-> FALSE]}
    ELSE {[spawn |-> FALSE] : b \in E.coinChance \ {TRUE}}
         \cup {[spawn |-> TRUE, lane |-> l, speed |-> v] :
                 l \in E.coinLanes, v \in E.coinSpeeds, b \in E.coinChance \ {FALSE}}

PowerupDraws(E, clock) ==
    IF ~PowerupSpawnDue(clock) THEN {[spawn |-> FALSE]}
    ELSE {[spawn |-> FALSE] : b \in E.powerupChance \ {TRUE}}
         \cup {[spawn |-> TRUE, lane |-> l] :
                 l \in E.powerupLanes, b \in E.powerupChance \ {FALSE}}

HazardDraws(E, clock) ==
    IF ~HazardSpawnDue(clock) THEN {[spawn |-> FALSE]}
    ELSE {[spawn |-> FALSE] : b \in E.hazardChance \ {TRUE}}
         \cup {[spawn |-> TRUE, lane |-> l, type |-> t] :
                 l \in E.hazardLanes, t \in E.hazardTypes, b \in E.hazardChance \ {FALSE}}

\* GameManager.spawnObjects(dt) with Date.now() = clock and the draws nd, cd, pd,
\* hd: the four collections, the four timers and the id counter afterwards
spawnObjects(clock, multiplier, nd, cd, pd, hd) ==
    LET id1 == IF nd.spawn THEN nextId + 1 ELSE nextId
        id2 == IF cd.spawn THEN id1 + 1 ELSE id1
        id3 == IF pd.spawn THEN id2 + 1 ELSE id2
        id4 == IF hd.spawn THEN id3 + 1 ELSE id3
    IN  [npcs |-> IF nd.spawn
                  THEN Append(npcs, NewNPC(id1, nd.lane, nd, multiplier)) ELSE npcs,
         lastSpawnTime |-> IF nd.spawn THEN clock ELSE lastSpawnTime,
         coins |-> IF cd.spawn
                   THEN Append(coins, NewCoin(id2, cd.lane, cd.speed, multiplier))
                   ELSE coins,
         lastCoinSpawnTime |-> IF cd.spawn THEN clock ELSE lastCoinSpawnTime,
         powerups |-> IF pd.spawn
                      THEN Append(powerups, NewPowerup(id3, pd.lane, multiplier))
                      ELSE powerups,
         lastPowerupSpawnTime |-> IF pd.spawn THEN clock ELSE lastPowerupSpawnTime,
         hazards |-> IF hd.spawn
                     THEN Append(hazards, NewHazard(id4, hd.lane, hd.type, multiplier))
                     ELSE hazards,
         lastHazardSpawnTime |-> IF hd.spawn THEN clock ELSE lastHazardSpawnTime,
         nextId |-> id4]

-----------------------------------------------------------------------------
(* GameManager.updateObjects *)

\* The Math.random() and Math.sin() results NPC.update can use for NPC n
NpcUpdateDraws(E, n, dt) ==
    IF n.laneChangeTimer + dt > n.laneChangeInterval
    THEN [wobble : E.wobbles, pick : {1, 2}, interval : E.intervals]
    ELSE [wobble : E.wobbles, pick : {1}, interval : {n.laneChangeInterval}]

\* One draw per NPC of the list
RECURSIVE NpcUpdateDrawSeqs(_, _, _)
NpcUpdateDrawSeqs(E, ns, dt) ==
    IF ns = <<>> THEN {<<>>}
    ELSE {<<u>> \o rest : u \in NpcUpdateDraws(E, Head(ns), dt),
                          rest \in NpcUpdateDrawSeqs(E, Tail(ns), dt)}

\* One bob value per coin of the list
RECURSIVE BobSeqs(_, _)
BobSeqs(E, cs) ==
    IF cs = <<>> THEN {<<>>}
    ELSE {<<b>> \o rest : b \in E.bobs, rest \in BobSeqs(E, Tail(cs))}

\* list.filter(o => o.active), mutated: nothing is purged
FilterActiveKeepsAll(list) == list

\* list.filter(o => o.active)
FilterActive(list) == SelectSeq(list, LAMBDA o : o.active)

\* GameManager.updateObjects(dt): every element is updated, then the inactive ones
\* are dropped.  sp is the result of spawnObjects, p the updated player.
updateObjects(dt, sp, p, clock, height, us, bobs) ==
    [npcs |-> FilterActive([i \in 1..Len(sp.npcs) |->
                              NPCUpdate(sp.npcs[i], dt, p, height, us[i])]),
     coins |-> FilterActive([i \in 1..Len(sp.coins) |->
                              CoinUpdate(sp.coins[i], dt, clock, height, bobs[i])]),
     powerups |-> FilterActive([i \in 1..Len(sp.powerups) |->
                              PowerupUpdate(sp.powerups[i], dt, height)]),
     hazards |-> FilterActive([i \in 1..Len(sp.hazards) |->
                              HazardUpdate(sp.hazards[i], dt, height)])]

-----------------------------------------------------------------------------
(* GameManager.checkCollisions *)

\* The state one pass threads through its four loops: the player, the particle
\* bursts, the combo counter, the number of endGame() calls and the event log.
\* createCoinBurst pushes COIN_BURST_PARTICLES particles of life 1200,
\* createExplosion 15 particles of life 800.

\* The coin loop from coin i on; cs is the coin list being mutated
RECURSIVE CoinLoop(_, _, _, _)
CoinLoop(w, cs, i, clock) ==
    IF i > Len(cs) THEN [w |-> w, list |-> cs]
    ELSE LET c == cs[i]
             r == IF collidesWith(w.player, c) THEN collect(c)
                  ELSE [ok |-> FALSE, coin |-> c]
         IN  IF r.ok
             THEN CoinLoop(
                    [w EXCEPT
                       !.particles = Append(@, [life |-> 1200,
                                                count |-> COIN_BURST_PARTICLES]),
                       !.player.score = @ + 10,
                       !.burstStreak = IF clock - w.lastBurstTime < 500
                                       THEN @ + 1 ELSE 1,
                       !.lastBurstTime = clock,
                       !.events = Append(@, [type |-> "coin", id |-> c.id])],
                    [cs EXCEPT ![i] = r.coin], i + 1, clock)
             ELSE CoinLoop(w, [cs EXCEPT ![i] = r.coin], i + 1, clock)

\* The powerup loop from powerup i on
RECURSIVE PowerupLoop(_, _, _, _)
PowerupLoop(w, ps, i, clock) ==
    IF i > Len(ps) THEN [w |-> w, list |-> ps]
    ELSE LET o == ps[i]
         IN  IF collidesWith(w.player, o)
             THEN PowerupLoop(
                    [w EXCEPT
                       !.player = IF o.type = "shield"
                                  THEN activateShield(@, clock) ELSE @,
                       !.particles = Append(@, [life |-> 800, count |-> 15]),
                       !.events = Append(@, [type |-> "powerup", id |-> o.id])],
                    [ps EXCEPT ![i].active = FALSE], i + 1, clock)
             ELSE PowerupLoop(w, ps, i + 1, clock)

\* The NPC loop, mutated: the NPC that was hit is deactivated (npc.active = false)
RECURSIVE NpcLoopRemoves(_, _, _)
NpcLoopRemoves(w, ns, i) ==
    IF i > Len(ns) THEN [w |-> w, list |-> ns]
    ELSE LET n == ns[i]
         IN  IF collidesWith(w.player, n)
             THEN LET p1 == takeDamage(w.player, 10000)
                      ends == p1.power <= 0
                  IN  NpcLoopRemoves(
                        [w EXCEPT
                           !.player = p1,
                           !.particles = Append(@, [life |-> 800, count |-> 15]),
                           !.endCalls = IF ends THEN @ + 1 ELSE @,
                           !.events = Append(@, [type |-> "npc", id |-> n.id,
                                                 shield |-> w.player.shieldActive,
                                                 before |-> w.player.power,
                                                 after |-> p1.power,
                                                 endGame |-> ends])],
                        [ns EXCEPT
                           ![i].active = FALSE,
                           ![i].contactDamage = @ + (w.player.power - p1.power)],
                        i + 1)
             ELSE NpcLoopRemoves(w, [ns EXCEPT ![i].contactDamage = 0], i + 1)

\* The NPC loop from NPC i on.  contactDamage is a history field: the power this
\* NPC has taken from the player over the current run of overlapping passes.
RECURSIVE NpcLoop(_, _, _)
NpcLoop(w, ns, i) ==
    IF i > Len(ns) THEN [w |-> w, list |-> ns]
    ELSE LET n == ns[i]
         IN  IF collidesWith(w.player, n)
             THEN LET p1 == takeDamage(w.player, 10000)
                      ends == p1.power <= 0
                  IN  NpcLoop(
                        [w EXCEPT
                           !.player = p1,
                           !.particles = Append(@, [life |-> 800, count |-> 15]),
                           !.endCalls = IF ends THEN @ + 1 ELSE @,
                           !.events = Append(@, [type |-> "npc", id |-> n.id,
                                                 shield |-> w.player.shieldActive,
                                                 before |-> w.player.power,
                                                 after |-> p1.power,
                                                 endGame |-> ends])],
                        [ns EXCEPT
                           ![i].avoidanceOffset =
                               Max(Px(-80), Min(Px(80), @ + n.avoidanceDirection * Px(30))),
                           ![i].contactDamage = @ + (w.player.power - p1.power)],
                        i + 1)
             ELSE NpcLoop(w, [ns EXCEPT ![i].contactDamage = 0], i + 1)

\* The hazard loop, mutated: a hazard that hits takes the shield down
RECURSIVE HazardLoopBreaksShield(_, _, _)
HazardLoopBreaksShield(w, hs, i) ==
    IF i > Len(hs) THEN [w |-> w, list |-> hs]
    ELSE LET h == hs[i]
         IN  IF collidesWith(w.player, h)
             THEN LET p1 == takeDamage(w.player, 15000)
                      ends == p1.power <= 0
                  IN  HazardLoopBreaksShield(
                        [w EXCEPT
                           !.player = [p1 EXCEPT !.shieldActive = FALSE],
                           !.particles = Append(@, [life |-> 800, count |-> 15]),
                           !.endCalls = IF ends THEN @ + 1 ELSE @,
                           !.events = Append(@, [type |-> "hazard", id |-> h.id,
                                                 shield |-> w.player.shieldActive,
                                                 before |-> w.player.power,
                                                 after |-> p1.power,
                                                 endGame |-> ends])],
                        [hs EXCEPT ![i].active = FALSE], i + 1)
             ELSE HazardLoopBreaksShield(w, hs, i + 1)

\* The hazard loop from hazard i on
RECURSIVE HazardLoop(_, _, _)
HazardLoop(w, hs, i) ==
    IF i > Len(hs) THEN [w |-> w, list |-> hs]
    ELSE LET h == hs[i]
         IN  IF collidesWith(w.player, h)
             THEN LET p1 == takeDamage(w.player, 15000)
                      ends == p1.power <= 0
                  IN  HazardLoop(
                        [w EXCEPT
                           !.player = p1,
                           !.particles = Append(@, [life |-> 800, count |-> 15]),
                           !.endCalls = IF ends THEN @ + 1 ELSE @,
                           !.events = Append(@, [type |-> "hazard", id |-> h.id,
                                                 shield |-> w.player.shieldActive,
                                                 before |-> w.player.power,
                                                 after |-> p1.power,
                                                 endGame |-> ends])],
                        [hs EXCEPT ![i].active = FALSE], i + 1)
             ELSE HazardLoop(w, hs, i + 1)

\* GameManager.checkCollisions(), mutated: the hazard loop runs first
checkCollisionsHazardsFirst(p, up, clock) ==
    LET w0 == [player |-> p, particles |-> particles, burstStreak |-> burstStreak,
               lastBurstTime |-> lastBurstTime, endCalls |-> 0, events |-> <<>>]
        h == HazardLoop(w0, up.hazards, 1)
        c == CoinLoop(h.w, up.coins, 1, clock)
        o == PowerupLoop(c.w, up.powerups, 1, clock)
        n == NpcLoop(o.w, up.npcs, 1)
    IN  [w |-> n.w, coins |-> c.list, powerups |-> o.list, npcs |-> n.list,
         hazards |-> h.list]

\* GameManager.checkCollisions(): coins, then powerups, then NPCs, then hazards.
\* up is the result of updateObjects, p the updated player.
checkCollisions(p, up, clock) ==
    LET w0 == [player |-> p, particles |-> particles, burstStreak |-> burstStreak,
               lastBurstTime |-> lastBurstTime, endCalls |-> 0, events |-> <<>>]
        c == CoinLoop(w0, up.coins, 1, clock)
        o == PowerupLoop(c.w, up.powerups, 1, clock)
        n == NpcLoop(o.w, up.npcs, 1)
        h == HazardLoop(n.w, up.hazards, 1)
    IN  [w |-> h.w, coins |-> c.list, powerups |-> o.list, npcs |-> n.list,
         hazards |-> h.list]

\* GameManager.updateParticles(dt): update every particle, drop those with life <= 0
updateParticles(bs, dt) ==
    SelectSeq([i \in 1..Len(bs) |-> ParticleUpdate(bs[i], dt)], LAMBDA b : b.life > 0)

-----------------------------------------------------------------------------
(* The frame loop *)

\* GameManager.endGame(), mutated: the loop flag is left set
endGameKeepsLoop ==
    /\ gameState' = "game_over"
    /\ isGameLoopRunning' = isGameLoopRunning

\* GameManager.endGame(): gameState = GAME_OVER, then stopGameLoop()
endGame ==
    /\ gameState' = "game_over"
    /\ isGameLoopRunning' = FALSE

\* update(dt) when this.gameTime - dt <= 0: endGame() and return
TimerExpired(dt) ==
    /\ gameTime' = gameTime - dt
    /\ endGame
    /\ UNCHANGED <<player, npcs, coins, powerups, hazards, particles,
                   lastSpawnTime, lastCoinSpawnTime, lastPowerupSpawnTime,
                   lastHazardSpawnTime, burstStreak, lastBurstTime,
                   currentSpeedMultiplier, speedIncreaseApplied20s,
                   speedIncreaseApplied40s, histVars>>

\* update(dt) past the timer check: progression, input, player, spawner, objects,
\* resolver, particles.  E gives the sets the random draws are taken from.
\* (A value that is used several times is bound by \E over a singleton.)
Simulate(E, dt) ==
    LET clock == now + dt
        time1 == gameTime - dt
    IN  \E st \in {updateSpeedProgression(time1,
                      [multiplier |-> currentSpeedMultiplier,
                       applied20s |-> speedIncreaseApplied20s,
                       applied40s |-> speedIncreaseApplied40s,
                       log |-> speedLog])},
           p2 \in {PlayerUpdate(handleInput(player, keys), dt, clock, canvasHeight)},
           nd \in NpcDraws(E, clock), cd \in CoinDraws(E, clock),
           pd \in PowerupDraws(E, clock), hd \in HazardDraws(E, clock) :
        \E sp \in {spawnObjects(clock, st.multiplier, nd, cd, pd, hd)} :
        \E us \in NpcUpdateDrawSeqs(E, sp.npcs, dt), bobs \in BobSeqs(E, sp.coins) :
        \E up \in {updateObjects(dt, sp, p2, clock, canvasHeight, us, bobs)} :
        \E r \in {checkCollisions(p2, up, clock)} :
            /\ gameTime' = time1
            /\ currentSpeedMultiplier' = st.multiplier
            /\ speedIncreaseApplied20s' = st.applied20s
            /\ speedIncreaseApplied40s' = st.applied40s
            /\ speedLog' = st.log
            /\ lastSpawnTime' = sp.lastSpawnTime
            /\ lastCoinSpawnTime' = sp.lastCoinSpawnTime
            /\ lastPowerupSpawnTime' = sp.lastPowerupSpawnTime
            /\ lastHazardSpawnTime' = sp.lastHazardSpawnTime
            /\ nextId' = sp.nextId
            /\ player' = r.w.player
            /\ npcs' = r.npcs
            /\ coins' = r.coins
            /\ powerups' = r.powerups
            /\ hazards' = r.hazards
            /\ particles' = updateParticles(r.w.particles, dt)
            /\ burstStreak' = r.w.burstStreak
            /\ lastBurstTime' = r.w.lastBurstTime
            /\ events' = r.w.events
            /\ resolverInput' = [player |-> p2, coins |-> up.coins,
                                 powerups |-> up.powerups, npcs |-> up.npcs,
                                 hazards |-> up.hazards, clock |-> clock]
            /\ scoredCoins' = scoredCoins \cup
                  {r.w.events[i].id : i \in {j \in 1..Len(r.w.events) :
                                               r.w.events[j].type = "coin"}}
            /\ ticks' = ticks + 1
            /\ idleUpdates' = idleUpdates
            /\ IF r.w.endCalls > 0 THEN endGame
               ELSE UNCHANGED <<gameState, isGameLoopRunning>>

\* GameManager.update(dt), mutated: the timer is counted down but never tested
updateNoExpiry(E, dt) ==
    IF gameState # "playing"
    THEN /\ idleUpdates' = idleUpdates + 1
         /\ UNCHANGED <<gameState, isGameLoopRunning, worldVars, ticks, nextId,
                        events, speedLog, scoredCoins, resolverInput>>
    ELSE Simulate(E, dt)

\* GameManager.update(dt), mutated: gameState is not checked
updateNoStateCheck(E, dt) ==
    IF gameTime - dt <= 0 THEN TimerExpired(dt)
    ELSE Simulate(E, dt)

\* GameManager.update(dt)
update(E, dt) ==
    IF gameState # "playing"
    THEN /\ idleUpdates' = idleUpdates + 1
         /\ UNCHANGED <<gameState, isGameLoopRunning, worldVars, ticks, nextId,
                        events, speedLog, scoredCoins, resolverInput>>
    ELSE IF gameTime - dt <= 0 THEN TimerExpired(dt)
    ELSE Simulate(E, dt)

\* gameLoop(currentTime) with the loop flag set: dt = currentTime - lastTime,
\* update(dt), render(), requestAnimationFrame(gameLoop)
GameFrame(E) ==
    /\ frames > 0
    /\ isGameLoopRunning
    /\ ticks < E.maxTicks
    /\ gameState = "playing" \/ idleUpdates < E.maxIdle
    /\ \E dt \in E.dts :
         /\ now' = now + dt
         /\ update(E, dt)
    /\ UNCHANGED <<frames, timeouts, canvasHeight, keys, sessions, collisionTest>>

\* gameLoop(currentTime) with the loop flag cleared: return, nothing is requested
StaleFrame ==
    /\ frames > 0
    /\ ~isGameLoopRunning
    /\ frames' = frames - 1
    /\ UNCHANGED <<gameState, isGameLoopRunning, timeouts, now, canvasHeight, keys,
                   worldVars, histVars, sessions, collisionTest>>

\* Date.now() is the wall clock, while dt comes from the animation-frame
\* timestamps: the wall clock can step ahead of them (a clock adjustment, a machine
\* that was suspended).  The step is taken while the NPC cooldown is running.
ClockSkew(E) ==
    /\ gameState = "playing"
    /\ now - lastSpawnTime <= NPC_SPAWN_INTERVAL
    /\ \E d \in E.skews : now' = now + d
    /\ UNCHANGED <<loopVars, canvasHeight, keys, worldVars, histVars, sessions,
                   collisionTest>>

-----------------------------------------------------------------------------
(* Specifications *)

\* Each specification draws the environment's values (frame deltas, Math.random()
\* results, the viewport height) from its own small sets and bounds the number of
\* updates and of startGame() calls.

\* The values shared by the environments below: one car type, lane and speed
BaseEnv ==
    [maxTicks |-> 0,
     maxSessions |-> 1,
     maxIdle |-> 0,
     startStates |-> {"splash", "loading", "game_over"},
     dts |-> {1000},
     npcLanes |-> {1},
     cars |-> {"saloon"},
     npcSpeeds |-> {NPC_SPEED},
     dirs |-> {1},
     intervals |-> {8000},
     durations |-> {3334},
     wobbles |-> {0},
     coinChance |-> {FALSE},
     powerupChance |-> {FALSE},
     hazardChance |-> {FALSE},
     coinLanes |-> {1},
     coinSpeeds |-> {NPC_SPEED},
     bobs |-> {0},
     powerupLanes |-> {1},
     hazardLanes |-> {1},
     hazardTypes |-> {"road_work"},
     skews |-> {}]

\* Spec: every entity kind comes down the player's lane; frames of 1 s and 0.1 s
MainEnv ==
    [BaseEnv EXCEPT !.maxTicks = MaxTicks,
                    !.dts = {100, 1000},
                    !.coinChance = {TRUE, FALSE},
                    !.powerupChance = {TRUE, FALSE},
                    !.hazardChance = {TRUE, FALSE}]

Init == InitWith({600}) /\ NoCollisionTest

Next ==
    \/ StartGame(MainEnv)
    \/ LoadingTimeout
    \/ GameFrame(MainEnv)

Spec == Init /\ [][Next]_vars

\* SpecLong: whole sessions.  Frames of 0.1 s and 1 s, and of 20 s and 45 s (a tab
\* that was in the background: gameLoop passes the whole gap to update); every
\* chance draw fails, so only NPCs are spawned.
LongEnv ==
    [BaseEnv EXCEPT !.maxTicks = MaxTicksLong,
                    !.dts = {100, 1000, 20000, 45000}]

NextLong ==
    \/ StartGame(LongEnv)
    \/ LoadingTimeout
    \/ GameFrame(LongEnv)
    \/ StaleFrame

SpecLong == Init /\ [][NextLong]_vars

\* SpecInput: the player's lane changes.  Frames of 60 and 90 ms, so that a
\* transition (LANE_CHANGE_DURATION = 150 ms) is seen in mid-course; keys and
\* pointer events arrive between frames.
InputEnv ==
    [BaseEnv EXCEPT !.maxTicks = MaxTicksInput,
                    !.dts = {60, 90}]

NextInput ==
    \/ StartGame(InputEnv)
    \/ LoadingTimeout
    \/ KeyDown
    \/ KeyUp
    \/ Pointer
    \/ GameFrame(InputEnv)

SpecInput == Init /\ [][NextInput]_vars

\* SpecCap: the populations.  A window 1600 px high and frames of 1.1 s: every
\* cooldown but the NPC one has run out at each frame, and what is spawned stays
\* on the road long enough for the powerups to reach their cap.  NPCs and
\* powerups come down lane 0 and hazards down lane 2, clear of the player.
CapEnv ==
    [BaseEnv EXCEPT !.maxTicks = MaxTicksCap,
                    !.dts = {1100},
                    !.npcLanes = {0},
                    !.powerupLanes = {0},
                    !.hazardLanes = {2},
                    !.coinChance = {TRUE},
                    !.powerupChance = {TRUE, FALSE},
                    !.hazardChance = {TRUE}]

InitCap == InitWith({1600}) /\ NoCollisionTest

NextCap ==
    \/ StartGame(CapEnv)
    \/ LoadingTimeout
    \/ GameFrame(CapEnv)

SpecCap == InitCap /\ [][NextCap]_vars

\* SpecSpacing: the NPC spawner.  NPCs come down the two outer lanes, clear of
\* the player; the wall clock can step 2 s ahead of the frame timestamps, so that
\* the cooldown runs out while the last NPC is still near the spawn position.
SpacingEnv ==
    [BaseEnv EXCEPT !.maxTicks = MaxTicksSpacing,
                    !.dts = {100, 1000},
                    !.npcLanes = {0, 2},
                    !.skews = {2000}]

NextSpacing ==
    \/ StartGame(SpacingEnv)
    \/ LoadingTimeout
    \/ GameFrame(SpacingEnv)
    \/ ClockSkew(SpacingEnv)

SpecSpacing == Init /\ [][NextSpacing]_vars

\* SpecDensity: traffic in the player's lane.  A window 800 px high; every NPC
\* comes down lane 1, where the player waits, and is pushed aside when it gets
\* there.
DensityEnv ==
    [BaseEnv EXCEPT !.maxTicks = MaxTicksDensity,
                    !.dts = {100, 1000}]

InitDensity == InitWith({800}) /\ NoCollisionTest

NextDensity ==
    \/ StartGame(DensityEnv)
    \/ LoadingTimeout
    \/ GameFrame(DensityEnv)

SpecDensity == InitDensity /\ [][NextDensity]_vars

\* SpecDecay: the power decay.  Nothing comes down the player's lane; the frames
\* are of 0.1, 0.2 and 0.3 s, so that one total is reached by several sequences,
\* and of 15 s and 45 s, which add up to the session's duration.
DecayEnv ==
    [BaseEnv EXCEPT !.maxTicks = MaxTicksDecay,
                    !.dts = {100, 200, 300, 15000, 45000},
                    !.npcLanes = {0}]

NextDecay ==
    \/ StartGame(DecayEnv)
    \/ LoadingTimeout
    \/ GameFrame(DecayEnv)
    \/ StaleFrame

SpecDecay == Init /\ [][NextDecay]_vars

\* SpecSession: the session state machine.  Up to three startGame() calls, made in
\* any state; frames of 1 s and of 60 s, which is the whole session; the loop's
\* callbacks that come after the loop was stopped.
SessionEnv ==
    [BaseEnv EXCEPT !.maxTicks = MaxTicksSession,
                    !.maxSessions = MaxSessions,
                    !.maxIdle = MaxIdle,
                    !.startStates = GAME_STATE,
                    !.dts = {1000, 60000}]

NextSession ==
    \/ StartGame(SessionEnv)
    \/ LoadingTimeout
    \/ GameFrame(SessionEnv)
    \/ StaleFrame

SpecSession == Init /\ [][NextSession]_vars

\* SpecProgress: the speed progression with entities on the road.  A frame of
\* 17 s (a tab that was in the background) and frames of 1.1 s, which take the
\* elapsed time past 20 s while what was spawned before is still on screen;
\* everything comes down lane 0, clear of the player.  Powerup and hazard draws
\* always succeed, coin draws either way.
ProgressEnv ==
    [BaseEnv EXCEPT !.maxTicks = MaxTicksProgress,
                    !.dts = {1100, 17000},
                    !.npcLanes = {0},
                    !.coinLanes = {0},
                    !.powerupLanes = {0},
                    !.hazardLanes = {0},
                    !.coinChance = {TRUE, FALSE},
                    !.powerupChance = {TRUE},
                    !.hazardChance = {TRUE}]

NextProgress ==
    \/ StartGame(ProgressEnv)
    \/ LoadingTimeout
    \/ GameFrame(ProgressEnv)

SpecProgress == Init /\ [][NextProgress]_vars

\* SpecOrder: the steps of one tick.  Keys are pressed and released between
\* frames of 60 ms and 1 s; every entity kind comes down the player's lane and
\* every chance draw succeeds, so that the spawner, the entity updates and the
\* resolver all have work in the same ticks.
OrderEnv ==
    [BaseEnv EXCEPT !.maxTicks = MaxTicksOrder,
                    !.dts = {60, 1000},
                    !.coinChance = {TRUE},
                    !.powerupChance = {TRUE},
                    !.hazardChance = {TRUE}]

NextOrder ==
    \/ StartGame(OrderEnv)
    \/ LoadingTimeout
    \/ KeyDown
    \/ KeyUp
    \/ GameFrame(OrderEnv)

SpecOrder == Init /\ [][NextOrder]_vars

\* SpecShield: the shield's lifetime.  Powerups come down the player's lane (the
\* draw succeeds or fails), NPCs down lane 0; frames of 1 s bring a powerup onto
\* the player, and frames of 4 s take the clock to the shield's expiry and past.
ShieldEnv ==
    [BaseEnv EXCEPT !.maxTicks = MaxTicksShield,
                    !.dts = {1000, 4000},
                    !.npcLanes = {0},
                    !.powerupChance = {TRUE, FALSE}]

NextShield ==
    \/ StartGame(ShieldEnv)
    \/ LoadingTimeout
    \/ GameFrame(ShieldEnv)

SpecShield == Init /\ [][NextShield]_vars

\* SpecResolve: the resolver's passes.  Frames of 1 s; every entity kind comes
\* down the player's lane, and each chance draw succeeds or fails, so that the
\* passes find every combination of categories on the player.
ResolveEnv ==
    [BaseEnv EXCEPT !.maxTicks = MaxTicksResolve,
                    !.coinChance = {TRUE, FALSE},
                    !.powerupChance = {TRUE, FALSE},
                    !.hazardChance = {TRUE, FALSE}]

NextResolve ==
    \/ StartGame(ResolveEnv)
    \/ LoadingTimeout
    \/ GameFrame(ResolveEnv)

SpecResolve == Init /\ [][NextResolve]_vars

\* SpecCollide: GameObject.collidesWith on its own.  The first box is the
\* player's; the second has the size of a coin, a hazard or a saloon car and is
\* placed, on each axis, centred on the first, or with the facing edges touching,
\* or 1/100 px short of or past touching, on either side.
Box(o) == [x |-> o.x, y |-> o.y, width |-> o.width, height |-> o.height]

BoxSizes ==
    {[width |-> COIN_SIZE, height |-> COIN_SIZE],
     [width |-> 30, height |-> 24],
     carTypes["saloon"]}

\* The centre coordinates of a box of extent e against one of extent ea centred at c
Placements(c, ea, e) ==
    {c + side * 50 * (ea + e) + d : side \in {-1, 0, 1}, d \in {-1, 0, 1}}

InitCollide ==
    /\ InitWith({600})
    /\ \E size \in BoxSizes :
        \E bx \in Placements(player.x, player.width, size.width),
           by \in Placements(player.y, player.height, size.height) :
            collisionTest = [a |-> Box(player),
                             b |-> [x |-> bx, y |-> by, width |-> size.width,
                                    height |-> size.height],
                             done |-> FALSE, ab |-> FALSE, ba |-> FALSE]

\* a.collidesWith(b) and b.collidesWith(a) on the pair under test
Collide ==
    /\ ~collisionTest.done
    /\ collisionTest' = [collisionTest EXCEPT
                            !.done = TRUE,
                            !.ab = collidesWith(collisionTest.a, collisionTest.b),
                            !.ba = collidesWith(collisionTest.b, collisionTest.a)]
    /\ UNCHANGED <<loopVars, now, canvasHeight, keys, worldVars, histVars, sessions>>

NextCollide == Collide

SpecCollide == InitCollide /\ [][NextCollide]_vars

\* SpecTerminal: the end of a session by loss of power.  A frame of 45 s (a tab
\* that was in the background) takes the power down to 55; after it NPCs and
\* hazards come down the player's lane in frames of 1 s until the power is gone.
TerminalEnv ==
    [BaseEnv EXCEPT !.maxTicks = MaxTicksTerminal,
                    !.dts = {1000, 45000},
                    !.hazardChance = {TRUE, FALSE}]

NextTerminal ==
    \/ StartGame(TerminalEnv)
    \/ LoadingTimeout
    \/ GameFrame(TerminalEnv)
    \/ StaleFrame

SpecTerminal == Init /\ [][NextTerminal]_vars

\* SpecParticles: the particle list.  A frame of 2.4 s brings what was spawned
\* onto the player, frames of 50 ms (20 frames a second) keep it there; NPCs
\* and powerups come down the player's lane, and every powerup draw succeeds.
ParticlesEnv ==
    [BaseEnv EXCEPT !.maxTicks = MaxTicksParticles,
                    !.dts = {50, 2400},
                    !.powerupChance = {TRUE}]

NextParticles ==
    \/ StartGame(ParticlesEnv)
    \/ LoadingTimeout
    \/ GameFrame(ParticlesEnv)

SpecParticles == Init /\ [][NextParticles]_vars

\* SpecLive: sessions run to their end.  Frames of 5 s and of 15 s; the tick
\* bound is the number of 5 s frames the session timer lasts, so it stops no
\* session.  startGame() can be called twice, in any state.  Every callback that
\* gameLoop requests (856, 859) is delivered: weak fairness on the frame.
LiveEnv ==
    [BaseEnv EXCEPT !.maxTicks = MaxTicksLive,
                    !.maxSessions = MaxSessionsLive,
                    !.startStates = GAME_STATE,
                    !.dts = {5000, 15000}]

NextLive ==
    \/ StartGame(LiveEnv)
    \/ LoadingTimeout
    \/ GameFrame(LiveEnv)
    \/ StaleFrame

SpecLive == Init /\ [][NextLive]_vars /\ WF_vars(GameFrame(LiveEnv))

-----------------------------------------------------------------------------
(* Claims *)

\* A step is a simulation tick of the running session when it counts one more update
IsTick == ticks' = ticks + 1

\* C1: a tick in which the player's power becomes 0 while the session timer has not
\* expired ends with gameState = game_over, whether the last drop came from the
\* decay in Player.update or from collision damage.
C1_PowerZeroEndsInLoss ==
    [][(IsTick /\ gameState = "playing" /\ player.power > 0 /\ player'.power = 0
          /\ gameTime' > 0)
       => gameState' = "game_over"]_vars

\* C2: when the session timer reaches zero during playing while the player's power
\* is still above 0, gameState becomes lead_form, not game_over.
C2_TimerExpiryWins ==
    [][(gameState = "playing" /\ gameTime > 0 /\ gameTime' <= 0 /\ player.power > 0)
       => gameState' = "lead_form"]_vars

\* C5: each coin increases the score at most once: the score is 10 points for
\* each distinct coin whose collect() succeeded, over all resolver passes so far.
C5_CoinScoresOnce == player.score = 10 * Cardinality(scoredCoins)

\* C5 witness: a coin has been collected and a later resolver pass scored nothing
C5_Witness ==
    /\ scoredCoins # {}
    /\ gameState = "playing"
    /\ \A i \in 1..Len(events) : events[i].type # "coin"

\* C6: a player-NPC overlap resolved while the shield is active does not reduce
\* the player's power.
C6_ShieldBlocksNpc ==
    \A i \in 1..Len(events) :
        (events[i].type = "npc" /\ events[i].shield) => events[i].after = events[i].before

\* C6 witness: the last pass resolved an NPC overlap with the shield active
C6_Witness ==
    \E i \in 1..Len(events) : events[i].type = "npc" /\ events[i].shield

\* C7: one contact between the player and an NPC (a maximal run of consecutive
\* passes in which they overlap) takes the NPC damage, 10 power, at most once.
C7_OneDamagePerContact ==
    \A i \in 1..Len(npcs) : npcs[i].contactDamage <= 10000

\* C8: a player-hazard overlap always reduces the player's power by 15, floored at
\* 0, also while the shield is active.
C8_HazardAlwaysDamages ==
    \A i \in 1..Len(events) :
        events[i].type = "hazard"
            => events[i].after = Max(0, events[i].before - 15000)

ClampedLane(direction) == Max(0, Min(2, player.targetLane + direction))

\* What one held key makes of the player in a tick that starts settled: the
\* request retargets when the clamped lane differs, and Player.update then
\* advances the new transition by the frame's delta
KeyTickEffect(direction) ==
    IF ClampedLane(direction) # player.targetLane
    THEN /\ player'.targetLane = ClampedLane(direction)
         /\ player'.currentLane = player.currentLane
         /\ player'.laneChangeProgress = now' - now
    ELSE /\ player'.targetLane = player.targetLane
         /\ player'.currentLane = player.currentLane
         /\ player'.laneChangeProgress = LANE_CHANGE_DURATION

\* C3: a lane-change request made while laneChangeProgress < 1 leaves targetLane,
\* currentLane and laneChangeProgress as they are; a request made while settled
\* whose clamped lane differs from targetLane sets targetLane to it and restarts
\* the transition at 0.  Checked on the pointer handlers' calls and on the calls
\* handleInput makes at the start of a tick.
C3_LaneRequest ==
    [][/\ \A lane \in 0..2 :
            PointerLane(lane) =>
                IF player.laneChangeProgress < LANE_CHANGE_DURATION
                THEN player' = player
                ELSE /\ player'.targetLane = lane
                     /\ player'.laneChangeProgress = 0
                     /\ player'.currentLane = player.currentLane
       /\ (IsTick /\ player.laneChangeProgress < LANE_CHANGE_DURATION)
             => player'.targetLane = player.targetLane
       /\ (IsTick /\ player.laneChangeProgress = LANE_CHANGE_DURATION
                  /\ keys = {"ArrowLeft"}) => KeyTickEffect(-1)
       /\ (IsTick /\ player.laneChangeProgress = LANE_CHANGE_DURATION
                  /\ keys = {"ArrowRight"}) => KeyTickEffect(1)
      ]_vars

\* C3 witness: a request was accepted and its transition is under way, the state
\* in which further requests are made and ignored
C3_Witness ==
    /\ gameState = "playing"
    /\ player.targetLane # player.currentLane
    /\ player.laneChangeProgress > 0
    /\ player.laneChangeProgress < LANE_CHANGE_DURATION

\* C4: targetLane and currentLane are always lanes 0..2, for the keyboard's -1/+1
\* and the pointer handlers' multi-lane deltas; a request whose clamped lane is
\* the lane already targeted (-1 in lane 0, +1 in lane 2) changes nothing and
\* restarts no transition.
C4_LanesInRange ==
    /\ [](player.targetLane \in 0..2 /\ player.currentLane \in 0..2)
    /\ [][(/\ IsTick
           /\ player.laneChangeProgress = LANE_CHANGE_DURATION
           /\ \/ keys = {"ArrowLeft"} /\ player.targetLane = 0
              \/ keys = {"ArrowRight"} /\ player.targetLane = 2)
          => /\ player'.targetLane = player.targetLane
             /\ player'.currentLane = player.currentLane
             /\ player'.laneChangeProgress = LANE_CHANGE_DURATION]_vars

\* C4 witness: the player sits settled in lane 0 with the left key held, after
\* the ticks that brought it there
C4_Witness ==
    /\ gameState = "playing"
    /\ "ArrowLeft" \in keys
    /\ player.targetLane = 0 /\ player.currentLane = 0
    /\ player.laneChangeProgress = LANE_CHANGE_DURATION
    /\ ticks >= 5

NpcIds(ns) == {ns[i].id : i \in 1..Len(ns)}

\* C11: when a tick spawns an NPC, every NPC that was already there in the lane
\* of the new one is at least 200 px (the minimum distance) from the spawn
\* position y = -100.
C11_SpawnSpacing ==
    [][(IsTick /\ lastSpawnTime' # lastSpawnTime) =>
          \A j \in 1..Len(npcs') :
              npcs'[j].id \notin NpcIds(npcs) =>
                  \A i \in 1..Len(npcs) :
                      npcs[i].lane = npcs'[j].lane
                          => Abs(npcs[i].y - Px(-100)) >= Px(200)]_vars

\* C11 witness: an NPC has been spawned into a lane that already held one
C11_Witness ==
    /\ gameState = "playing"
    /\ \E i, j \in 1..Len(npcs) :
          /\ npcs[i].id < npcs[j].id
          /\ npcs[i].lane = npcs[j].lane
          /\ lastSpawnTime = now

\* C12: at most 2 live NPCs are assigned to any one lane at the same time.
C12_LaneDensity ==
    \A l \in 0..2 : Cardinality({i \in 1..Len(npcs) : npcs[i].lane = l}) <= 2

\* The power a fresh player has after decaying continuously for the time the
\* session timer has counted down
DecayedPower == Max(0, NewPlayer(canvasHeight).power
                          - POWER_DECAY_RATE * (GAME_DURATION - gameTime))

StateEdges ==
    {<<"splash", "loading">>, <<"loading", "playing">>,
     <<"playing", "game_over">>, <<"playing", "lead_form">>,
     <<"game_over", "loading">>, <<"lead_form", "loading">>}

\* C14: gameState changes only along splash -> loading, loading -> playing,
\* playing -> game_over, playing -> lead_form and game_over/lead_form -> loading,
\* whatever startGame() call or timeout makes the change.
C14_StateEdges ==
    [][gameState' # gameState => <<gameState, gameState'>> \in StateEdges]_vars

\* A step is a run of the gameLoop callback: the clock has moved and no timeout
\* was taken, or a callback found the loop stopped
IsFrame ==
    \/ now' # now /\ timeouts' = timeouts
    \/ frames' < frames

\* C15: a frame that finds gameState other than playing, the stale callback after
\* a terminal transition included, changes nothing of the world: timer, player,
\* collections, spawn timers, combo state and progression latches.
C15_IdleUpdateNoEffect ==
    [][(IsFrame /\ gameState # "playing") => UNCHANGED <<worldVars, gameState>>]_vars

\* C15 witness: update() has been called while the game was not being played,
\* with a session's world in place
C15_Witness ==
    /\ gameState # "playing"
    /\ idleUpdates > 0
    /\ Len(npcs) > 0

\* The world resetGame() leaves
FreshWorld ==
    /\ player = NewPlayer(canvasHeight)
    /\ player.power = 100000 /\ player.score = 0 /\ ~player.shieldActive
    /\ player.targetLane = 1 /\ player.currentLane = 1
    /\ npcs = <<>> /\ coins = <<>> /\ powerups = <<>> /\ hazards = <<>>
    /\ particles = <<>>
    /\ gameTime = GAME_DURATION
    /\ lastSpawnTime = 0 /\ lastCoinSpawnTime = 0
    /\ lastPowerupSpawnTime = 0 /\ lastHazardSpawnTime = 0
    /\ burstStreak = 0 /\ lastBurstTime = 0
    /\ currentSpeedMultiplier = 10
    /\ ~speedIncreaseApplied20s /\ ~speedIncreaseApplied40s

\* C16: every step that enters playing, the first start and each restart, leaves
\* the five collections empty, a fresh player, the full session time, spawn
\* timers and combo state at zero, the multiplier at 1.0 and both latches clear.
C16_EntryResets ==
    [][(gameState # "playing" /\ gameState' = "playing") => FreshWorld']_vars

\* C16 witness: a restarted session has just entered playing
C16_Witness ==
    /\ gameState = "playing"
    /\ sessions >= 2
    /\ ticks = 0
    /\ timeouts = 0
    /\ FreshWorld

\* C17: the frame in which the loop is stopped requests no further callback.
C17_NoFrameAfterStop ==
    [][(isGameLoopRunning /\ ~isGameLoopRunning') => frames' = frames - 1]_vars

\* The most one update may apply, in ms: one second, far above a frame at any
\* refresh rate
SaneMaxDelta == 1000

\* C18: whatever delta the frame brings, one update moves the session timer
\* forward by no more than the per-tick maximum and never backwards; the player's
\* power decays by no more than that time's worth.
C18_DeltaClamped ==
    [][(IsFrame /\ gameState = "playing") =>
          /\ gameTime - gameTime' >= 0
          /\ gameTime - gameTime' <= SaneMaxDelta
          /\ (events' = <<>> /\ gameTime' > 0) =>
                 player.power - player'.power <= POWER_DECAY_RATE * SaneMaxDelta]_vars

\* Every entity of a list is active
AllActive(list) == \A i \in 1..Len(list) : list[i].active

\* C19: when a tick begins, and spawnObjects compares each population with its
\* cap, the coins, powerups and hazards hold no inactive entity: what the last
\* resolver pass deactivated has been purged.
C19_PurgedBeforeSpawnCheck ==
    [][IsTick => (AllActive(coins) /\ AllActive(powerups) /\ AllActive(hazards))]_vars

\* C20: after every update() call, in the state render() reads, the NPCs, coins,
\* powerups and hazards are all active: what the resolver consumed in the tick
\* is not in the collections any more.
C20_SnapshotActiveOnly ==
    gameState \in {"playing", "game_over"} =>
        /\ AllActive(npcs) /\ AllActive(coins)
        /\ AllActive(powerups) /\ AllActive(hazards)

\* C21: every tick whose resolver pass finds the player overlapping an NPC ends
\* with gameState = game_over, whatever the player's power and shield.
C21_NpcOverlapEndsGame ==
    [][(IsTick /\ \E i \in 1..Len(events') : events'[i].type = "npc")
          => gameState' = "game_over"]_vars

\* The extent of the intersection of two boxes along x and along y; negative when
\* the boxes are apart on that axis, 0 when their edges touch
OverlapWidth(a, b) ==
    Min(a.x + 50 * a.width, b.x + 50 * b.width)
        - Max(a.x - 50 * a.width, b.x - 50 * b.width)

OverlapHeight(a, b) ==
    Min(a.y + 50 * a.height, b.y + 50 * b.height)
        - Max(a.y - 50 * a.height, b.y - 50 * b.height)

\* C22: collidesWith(a, b) is true exactly when the intersection of the two
\* centred boxes has positive width and positive height, so that boxes touching
\* along an edge or at a corner do not collide, and collidesWith(b, a) gives the
\* same answer.
C22_StrictOverlap ==
    collisionTest.done =>
        /\ collisionTest.ab <=> (/\ OverlapWidth(collisionTest.a, collisionTest.b) > 0
                                 /\ OverlapHeight(collisionTest.a, collisionTest.b) > 0)
        /\ collisionTest.ba = collisionTest.ab

\* C22 witness: collidesWith has answered for two boxes that touch along a
\* vertical edge and share a stretch of it
C22_Witness ==
    /\ collisionTest.done
    /\ OverlapWidth(collisionTest.a, collisionTest.b) = 0
    /\ OverlapHeight(collisionTest.a, collisionTest.b) > 0
    /\ ~collisionTest.ab

\* C23: in every tick, a coin, powerup or hazard block of the spawner that finds
\* its cooldown elapsed and its population below the cap sets the category's
\* timer to the current time, whether or not the chance draw lets it spawn; the
\* NPC timer changes only in a tick that adds an NPC.
C23_CooldownResetOnAttempt ==
    [][IsTick =>
          /\ CoinSpawnDue(now') => lastCoinSpawnTime' = now'
          /\ PowerupSpawnDue(now') => lastPowerupSpawnTime' = now'
          /\ HazardSpawnDue(now') => lastHazardSpawnTime' = now'
          /\ lastSpawnTime' # lastSpawnTime =>
                 \E j \in 1..Len(npcs') : npcs'[j].id \notin NpcIds(npcs)]_vars

\* C23, the NPC half alone: the NPC timer changes only in a tick that adds an NPC
C23_NpcTimerOnSpawnOnly ==
    [][(IsTick /\ lastSpawnTime' # lastSpawnTime) =>
          \E j \in 1..Len(npcs') : npcs'[j].id \notin NpcIds(npcs)]_vars

\* A tick took list old to list new with multiplier mult in force: the entities
\* that were there keep their velocityY, and the new ones (all of base velocity
\* NPC_SPEED px/s in the environments used) have NPC_SPEED times mult
VelocitiesKept(old, new, mult) ==
    \A j \in 1..Len(new) :
        IF new[j].id \in {old[i].id : i \in 1..Len(old)}
        THEN \A i \in 1..Len(old) :
                 old[i].id = new[j].id => new[j].velocityY = old[i].velocityY
        ELSE new[j].velocityY = NPC_SPEED * mult * 10

\* C24: in every tick, a newly spawned NPC, coin, powerup or hazard gets its base
\* velocity times the multiplier in force in that tick (after the tick's
\* progression step), and every entity spawned earlier keeps the velocity it
\* had, also in the tick in which a latch fires.
C24_VelocityFixedAtSpawn ==
    [][IsTick =>
          /\ VelocitiesKept(npcs, npcs', currentSpeedMultiplier')
          /\ VelocitiesKept(coins, coins', currentSpeedMultiplier')
          /\ VelocitiesKept(powerups, powerups', currentSpeedMultiplier')
          /\ VelocitiesKept(hazards, hazards', currentSpeedMultiplier')]_vars

\* C24 witness: the 20 s latch has fired and the road holds an NPC spawned
\* before it, at the base velocity, and a coin spawned after it, at 1.1 times
C24_Witness ==
    /\ gameState = "playing"
    /\ currentSpeedMultiplier = SPEED_INCREASE_20S
    /\ \E i \in 1..Len(npcs) : npcs[i].velocityY = NPC_SPEED * 100
    /\ \E i \in 1..Len(coins) : coins[i].velocityY = NPC_SPEED * SPEED_INCREASE_20S * 10

\* The progression state: base, boosted_20s, boosted_40s
ProgressionStates ==
    {<<10, FALSE, FALSE>>,
     <<SPEED_INCREASE_20S, TRUE, FALSE>>,
     <<SPEED_INCREASE_40S, TRUE, TRUE>>}

\* C25: the multiplier and the two latches are always in one of the three
\* progression states, and in every step but an entry to playing (the loading
\* timeout, which resets them) the multiplier does not decrease and a latch that
\* is set stays set.
C25_ProgressionOneWay ==
    /\ [](<<currentSpeedMultiplier, speedIncreaseApplied20s, speedIncreaseApplied40s>>
             \in ProgressionStates)
    /\ [][timeouts' >= timeouts =>
             /\ currentSpeedMultiplier' >= currentSpeedMultiplier
             /\ speedIncreaseApplied20s => speedIncreaseApplied20s'
             /\ speedIncreaseApplied40s => speedIncreaseApplied40s']_vars

\* C25 witness: the session has gone on after the 40 s latch fired
C25_Witness ==
    /\ gameState = "playing"
    /\ speedIncreaseApplied40s
    /\ Len(speedLog) = 2
    /\ speedLog[2].elapsed < GAME_DURATION - gameTime

\* The four categories of the resolver, and the orders they can be taken in
Categories == {"coins", "powerups", "npcs", "hazards"}

Orders == {o \in [1..4 -> Categories] : \A i, j \in 1..4 : i # j => o[i] # o[j]}

\* One category's loop of checkCollisions() run on the pass state w and the lists
LoopOf(kind, w, lists, clock) ==
    CASE kind = "coins" ->
           LET r == CoinLoop(w, lists.coins, 1, clock)
           IN  [w |-> r.w, lists |-> [lists EXCEPT !.coins = r.list]]
      [] kind = "powerups" ->
           LET r == PowerupLoop(w, lists.powerups, 1, clock)
           IN  [w |-> r.w, lists |-> [lists EXCEPT !.powerups = r.list]]
      [] kind = "npcs" ->
           LET r == NpcLoop(w, lists.npcs, 1)
           IN  [w |-> r.w, lists |-> [lists EXCEPT !.npcs = r.list]]
      [] kind = "hazards" ->
           LET r == HazardLoop(w, lists.hazards, 1)
           IN  [w |-> r.w, lists |-> [lists EXCEPT !.hazards = r.list]]

\* The four loops run in the given order, from loop k on
RECURSIVE ResolveFrom(_, _, _, _, _)
ResolveFrom(order, k, w, lists, clock) ==
    IF k > Len(order) THEN [w |-> w, lists |-> lists]
    ELSE LET r == LoopOf(order[k], w, lists, clock)
         IN  ResolveFrom(order, k + 1, r.w, r.lists, clock)

\* The flags of the entities of a list
Flags(list) == [i \in 1..Len(list) |-> list[i].active]

\* What a pass in the given order makes of the last pass's input: the player
\* (power, shield, score), the entities' flags and whether endGame() was called
Outcome(order) ==
    LET in == resolverInput
        r  == ResolveFrom(order, 1,
                  [player |-> in.player, particles |-> <<>>, burstStreak |-> 0,
                   lastBurstTime |-> 0, endCalls |-> 0, events |-> <<>>],
                  [coins |-> in.coins, powerups |-> in.powerups, npcs |-> in.npcs,
                   hazards |-> in.hazards],
                  in.clock)
    IN  [player |-> r.w.player,
         ended |-> r.w.endCalls > 0,
         coins |-> Flags(r.lists.coins),
         collected |-> [i \in 1..Len(r.lists.coins) |-> r.lists.coins[i].collected],
         powerups |-> Flags(r.lists.powerups),
         npcs |-> Flags(r.lists.npcs),
         hazards |-> Flags(r.lists.hazards)]

\* Category a comes before category b in the order
Before(order, a, b) ==
    \E i, j \in 1..4 : i < j /\ order[i] = a /\ order[j] = b

\* The order of the code, and the orders that keep the powerups ahead of the
\* NPCs and of the hazards
SourceOrder == <<"coins", "powerups", "npcs", "hazards">>

PowerupsFirstOrders ==
    {o \in Orders : Before(o, "powerups", "npcs") /\ Before(o, "powerups", "hazards")}

\* C26, as stated: whatever the last resolver pass started from, running the four
\* category loops in any order gives the player, entity flags and game outcome
\* that the order coins, powerups, NPCs, hazards gives.
C26_ResolverOrderIrrelevant ==
    \E actual \in {Outcome(SourceOrder)} :
        \A order \in Orders : Outcome(order) = actual

\* C26: the outcome of a pass, which in the state after a tick is the player the
\* code's own pass produced, is the same for every order of the four loops that
\* keeps the powerups ahead of the NPCs and of the hazards.
C26_OrderIrrelevantAfterPowerups ==
    \E actual \in {Outcome(SourceOrder)} :
        /\ gameState = "playing" => actual.player = player
        /\ \A order \in PowerupsFirstOrders : Outcome(order) = actual

\* C26 witness: the last pass started with the shield down and resolved a
\* powerup, an NPC and a hazard overlap together
C26_Witness ==
    /\ ~resolverInput.player.shieldActive
    /\ \A t \in {"powerup", "npc", "hazard"} :
           \E i \in 1..Len(events) : events[i].type = t

\* The entity of list old with the id of e, if there is one
Earlier(old, e) == {old[i] : i \in {k \in 1..Len(old) : old[k].id = e.id}}

\* Spawner before the entity updates, each entity updated once: in a tick with
\* delta dt every entity of the list has moved by its velocity over dt, from
\* where it was or, when the tick spawned it, from the spawn position
MovedOnce(old, new, spawnY, dt) ==
    \A j \in 1..Len(new) :
        IF Earlier(old, new[j]) # {}
        THEN \A e \in Earlier(old, new[j]) : new[j].y = MoveY(e, dt)
        ELSE new[j].y = MoveY([y |-> spawnY, velocityY |-> new[j].velocityY], dt)

\* The ids of the events of one type in a pass's log
EventIds(log, type) == {log[k].id : k \in {i \in 1..Len(log) : log[i].type = type}}

\* Resolver after the entity updates, each entity resolved once: an entity of
\* the list has an event of its type in the log exactly when its box, where the
\* update left it, overlaps the player's
ResolvedWhereMoved(p, list, log, type) ==
    /\ \A j \in 1..Len(list) :
           list[j].id \in EventIds(log, type) <=> collidesWith(p, list[j])
    /\ Cardinality({i \in 1..Len(log) : log[i].type = type})
          = Cardinality(EventIds(log, type))

\* The place of a category in the resolver's order
Rank(type) ==
    CASE type = "coin" -> 1 [] type = "powerup" -> 2 [] type = "npc" -> 3
      [] type = "hazard" -> 4

\* C27: in every tick that runs the simulation (playing, timer not expired), with
\* dt the frame's delta:
\*  - input is applied before the player update, once each: a settled player with
\*    one key held towards a free lane ends the tick retargeted and dt into the
\*    transition (settled again in the new lane when dt covers it);
\*  - the player update precedes the NPC update: every NPC is where NPC.update
\*    puts it when it steers around the player's updated position;
\*  - the spawner precedes the entity updates, which run once: MovedOnce;
\*  - the resolver runs after them, once: ResolvedWhereMoved, and the entities it
\*    consumed are the inactive ones;
\*  - the resolver logs coins, then powerups, then NPCs, then hazards.
C27_TickOrder ==
    [][IsTick =>
        LET dt == now' - now
        IN  /\ \A d \in {-1, 1} :
                 (/\ keys = {IF d = -1 THEN "ArrowLeft" ELSE "ArrowRight"}
                  /\ player.laneChangeProgress = LANE_CHANGE_DURATION
                  /\ ClampedLane(d) # player.targetLane)
                 => /\ player'.targetLane = ClampedLane(d)
                    /\ player'.laneChangeProgress = Min(dt, LANE_CHANGE_DURATION)
                    /\ player'.currentLane = IF dt >= LANE_CHANGE_DURATION
                                             THEN ClampedLane(d)
                                             ELSE player.currentLane
            /\ \A j \in 1..Len(npcs') :
                 \A e \in Earlier(npcs, npcs'[j]) :
                    \E u \in NpcUpdateDraws(OrderEnv, e, dt) :
                       npcs'[j].x = NPCUpdate(e, dt, player', canvasHeight, u).x
            /\ MovedOnce(npcs, npcs', Px(-100), dt)
            /\ MovedOnce(coins, coins', Px(-50), dt)
            /\ MovedOnce(powerups, powerups', Px(-50), dt)
            /\ MovedOnce(hazards, hazards', Px(-50), dt)
            /\ ResolvedWhereMoved(player', coins', events', "coin")
            /\ ResolvedWhereMoved(player', powerups', events', "powerup")
            /\ ResolvedWhereMoved(player', npcs', events', "npc")
            /\ ResolvedWhereMoved(player', hazards', events', "hazard")
            /\ \A j \in 1..Len(coins') :
                 coins'[j].active <=> coins'[j].id \notin EventIds(events', "coin")
            /\ \A j \in 1..Len(powerups') :
                 powerups'[j].active <=> powerups'[j].id \notin EventIds(events', "powerup")
            /\ \A j \in 1..Len(hazards') :
                 hazards'[j].active <=> hazards'[j].id \notin EventIds(events', "hazard")
            /\ \A i, j \in 1..Len(events') :
                 i < j => Rank(events'[i].type) <= Rank(events'[j].type)]_vars

\* C27 witness: the fourth tick, a frame of 60 ms, took a key, started the
\* transition and moved the player 60 ms into it, and the resolver pass that
\* followed found the player, where the update had put it, on an NPC
C27_Witness ==
    /\ gameState = "playing"
    /\ ticks = MaxTicksOrder
    /\ keys # {}
    /\ player.laneChangeProgress = 60
    /\ \E i \in 1..Len(events) : events[i].type = "npc"

\* The ids of the entities of a list
Ids(list) == {list[i].id : i \in 1..Len(list)}

\* A tick took a single-use list from old to new, with last and log the events
\* of the pass before and of the tick's own pass: what overlaps the player after
\* the pass is inactive; what was inactive before the tick is gone; nothing
\* returns to the list (an entity of new was in old or was constructed in this
\* tick); an entity is logged once in the pass and not in two passes running
SingleUse(old, new, last, log, type, p, firstNewId) ==
    /\ \A j \in 1..Len(new) : collidesWith(p, new[j]) => ~new[j].active
    /\ \A i \in 1..Len(old) : ~old[i].active => old[i].id \notin Ids(new)
    /\ \A j \in 1..Len(new) : new[j].id \in Ids(old) \/ new[j].id >= firstNewId
    /\ Cardinality({i \in 1..Len(log) : log[i].type = type})
          = Cardinality(EventIds(log, type))
    /\ EventIds(log, type) \cap EventIds(last, type) = {}

\* C28: in every tick, a powerup or hazard that overlaps the player in the
\* resolver pass is inactive when the pass ends, and one the previous pass
\* deactivated has been removed and does not come back, so that no powerup
\* activates the shield and no hazard applies its damage in more than one pass
\* or more than once in a pass.
C28_SingleUse ==
    [][IsTick =>
          /\ SingleUse(powerups, powerups', events, events', "powerup", player',
                       nextId + 1)
          /\ SingleUse(hazards, hazards', events, events', "hazard", player',
                       nextId + 1)]_vars

\* C28 witness: a pass that came after the one in which the shield was picked
\* up has run, and the powerup and hazard the earlier pass consumed are gone
C28_Witness ==
    /\ gameState = "playing"
    /\ player.shieldEndTime > 0
    /\ player.shieldEndTime < now + SHIELD_DURATION
    /\ AllActive(powerups) /\ AllActive(hazards)

\* C29: while the game is played, after every tick (whose player update and
\* resolver pass read the clock value now) the shield is up exactly when one was
\* picked up and now has not passed its expiry, shieldEndTime; a pass that
\* picks up a powerup, shield up or not, sets the expiry to now + SHIELD_DURATION,
\* and a tick whose pass picks up none leaves the expiry alone.
C29_ShieldWindow ==
    /\ [](gameState = "playing" =>
            /\ player.shieldActive <=>
                  (player.shieldEndTime > 0 /\ now <= player.shieldEndTime)
            /\ EventIds(events, "powerup") # {} =>
                  (player.shieldActive /\ player.shieldEndTime = now + SHIELD_DURATION))
    /\ [][(IsTick /\ EventIds(events', "powerup") = {}) =>
             player'.shieldEndTime = player.shieldEndTime]_vars

\* C29 witness: a shield was picked up, and an update at a clock value past its
\* expiry has taken it down
C29_Witness ==
    /\ gameState = "playing"
    /\ player.shieldEndTime > 0
    /\ now > player.shieldEndTime
    /\ ~player.shieldActive

\* C30: in every step of a session (every step but the entry to playing, which
\* empties the collections), the NPCs in the collection afterwards are all
\* active, those the resolver found on the player included, and an NPC that was
\* in the collection and is not any more is one whose y, moved by the frame's
\* delta, is past the canvas height + 100.
C30_NpcLeavesOnlyOffScreen ==
    [][timeouts' >= timeouts =>
          /\ AllActive(npcs')
          /\ \A i \in 1..Len(npcs) :
                npcs[i].id \notin Ids(npcs')
                    => MoveY(npcs[i], now' - now) > Px(canvasHeight + 100)]_vars

\* C30 witness: an NPC that a pass found on the player went through the next
\* tick's purge, was found on the player again, and is still in the collection
C30_Witness ==
    /\ gameState = "playing"
    /\ \E i \in 1..Len(npcs) : npcs[i].active /\ npcs[i].contactDamage > 10000

\* An NPC has left the collection in a session that is still being played
C30_NpcHasLeft ==
    /\ gameState = "playing"
    /\ nextId > 0
    /\ 1 \notin Ids(npcs)

\* C31: in every state each NPC's avoidanceOffset is between -60 and 60 px,
\* after the avoidance steps of NPC.update and the pushes of the resolver.
C31_AvoidanceOffsetBounded ==
    \A i \in 1..Len(npcs) :
        /\ npcs[i].avoidanceOffset >= Px(-60)
        /\ npcs[i].avoidanceOffset <= Px(60)


Interpolated(p) ==
    LANE_CHANGE_DURATION * p.x =
        LANE_CHANGE_DURATION * Px(LANES[p.currentLane + 1])
        + (Px(LANES[p.targetLane + 1]) - Px(LANES[p.currentLane + 1]))
          * p.laneChangeProgress

\* C33: after every Player.update, laneChangeProgress is in [0, 1] and player.x is
\* the interpolation between the x of currentLane and the x of targetLane; in
\* every state with laneChangeProgress = 1, currentLane = targetLane and x is that
\* lane's x.
C33_LaneInterpolation ==
    /\ [][IsTick => /\ player'.laneChangeProgress >= 0
                    /\ player'.laneChangeProgress <= LANE_CHANGE_DURATION
                    /\ Interpolated(player')]_vars
    /\ [](player.laneChangeProgress = LANE_CHANGE_DURATION
            => /\ player.currentLane = player.targetLane
               /\ player.x = Px(LANES[player.currentLane + 1]))

\* A tick has left the player 60 % of the way from lane 1 to lane 0
C33_Witness ==
    /\ ticks > 0
    /\ player.currentLane = 1 /\ player.targetLane = 0
    /\ player.laneChangeProgress = 90
    /\ player.x = Px(140)


\* The endGame() calls of the last resolver pass (1077-1079, 1095-1097)
EndGameCalls ==
    Cardinality({i \in 1..Len(events) :
                    events[i].type \in {"npc", "hazard"} /\ events[i].endGame})

\* C34: endGame() runs at most once in a session: a resolver pass calls it at most
\* once, and no tick follows the pass that called it.
C34_EndGameOnce ==
    /\ [](EndGameCalls <= 1)
    /\ [][EndGameCalls > 0 => ~IsTick]_vars


\* C35: at most one gameLoop callback chain is live: while the loop flag is set,
\* at most one callback is pending, so that update() runs once per display frame.
C35_SingleLoopChain == isGameLoopRunning => frames <= 1


\* C36: resetGame() does not run while a session is playing: no loading timeout
\* (the only caller of resetGame) fires in the playing state, and a step that
\* stays in playing neither refills the session timer nor restarts the tick count.
C36_NoResetWhilePlaying ==
    [][gameState = "playing" =>
          /\ timeouts' >= timeouts
          /\ gameState' = "playing" => (gameTime' <= gameTime /\ ticks' >= ticks)]_vars


\* C37: when every requested frame is delivered with a delta > 0, a session that
\* is playing eventually leaves playing; each frame of a playing session lowers
\* gameTime, and no state is playing with gameTime <= 0.
C37_SessionEnds ==
    /\ (gameState = "playing") ~> (gameState # "playing")
    /\ [][(gameState = "playing" /\ IsFrame) => gameTime' < gameTime]_vars
    /\ [](gameState = "playing" => gameTime > 0)

\* A session has run for more than 5 ticks and was ended by its timer
C37_Witness ==
    /\ gameState = "game_over"
    /\ gameTime <= 0
    /\ ticks > 5


\* C38: in every state the particle list holds at most MAX_PARTICLES particles.
C38_ParticleCap == ParticleCount(particles) <= MAX_PARTICLES


\* The session is playing and its ticks so far total less than
\* LANE_CHANGE_DURATION
JustEntered ==
    /\ gameState = "playing"
    /\ GAME_DURATION - gameTime < LANE_CHANGE_DURATION

\* C39: a freshly reset player is not settled.  While the ticks since entry to
\* playing total less than 150 ms, laneChangeProgress is that total (0 at entry),
\* currentLane = targetLane = 1 and x is the middle lane's; every step taken from
\* such a state, a lane-change request or the tick that completes the 150 ms,
\* leaves both lanes and x as they are.
C39_FreshPlayerUnsettled ==
    /\ [](JustEntered =>
            /\ player.laneChangeProgress = GAME_DURATION - gameTime
            /\ player.targetLane = 1 /\ player.currentLane = 1
            /\ player.x = Px(LANES[2]))
    /\ [][JustEntered =>
            /\ player'.targetLane = 1 /\ player'.currentLane = 1
            /\ player'.x = Px(LANES[2])]_vars

\* Two ticks of 60 ms after entry, with the left arrow held: the request has not
\* been taken up
C39_Witness ==
    /\ JustEntered
    /\ ticks = 2
    /\ "ArrowLeft" \in keys
    /\ player.laneChangeProgress = 120
    /\ player.targetLane = 1

=============================================================================
